---- MODULE Spec2Model ----
(***************************************************************************)
(* The telemetry store of lite_observability (data_store.py): bounded      *)
(* logs, system series, custom metrics, the event bus, the persistence     *)
(* worker, and the threads that call them under the store's RLock.         *)
(*                                                                         *)
(* Python values are modelled as follows.                                  *)
(*  - a dict is a function over its keys (a record); d.get(k, v) is Get.   *)
(*  - a list or a deque is a record [items, maxlen]; maxlen is None for a  *)
(*    plain list.                                                          *)
(*  - None in a numeric field is the integer None (-1); all real values of *)
(*    the model are >= 0.                                                  *)
(*  - a float that the code obtains by a division is an exact fraction     *)
(*    [num, den] in lowest terms (IEEE rounding is not modelled).          *)
(*  - time.time() is the variable now, advanced by Tick.                   *)
(*  - a reference to a mutable object that another holder keeps (the inner *)
(*    dicts of self.metrics, a custom metric's attribute dict) is          *)
(*    [live |-> TRUE] while the store still holds the same object, and is  *)
(*    frozen to the object's last value when the store drops the object    *)
(*    (clear).                                                             *)
(***************************************************************************)
EXTENDS Integers, Sequences, FiniteSets, TLC

\* ---------------------------------------------------------------- bounds
\* Capacities of the configuration (config.py defaults 1000, 500, 1440), scaled down.
max_traces == 2
max_errors == 1
max_metric_points == 2
\* The number of events of one behaviour: operations issued and clock advances.
MaxOps == 4
\* The number of subscriptions one behaviour registers.
MaxCallbacks == 2

\* ------------------------------------------------------ program constants
RpmWindow == 60
ErrorWindow == 300
ErrorStatus == 400
MsPerSecond == 1000
PersistInterval == 60
DefaultStatus == 200
DefaultDuration == 0

None == -1
Threads == {1, 2}
NoThread == 0

\* ------------------------------------------------------------ Python values
Get(d, k, default) == IF k \in DOMAIN d THEN d[k] ELSE default

\* A dict replaced by e, the keys of d dropped.
UpdateResets(d, e) == e

\* dict.update / {**d, **e}: keys of e win.
Update(d, e) ==
    [k \in DOMAIN d \cup DOMAIN e |-> IF k \in DOMAIN e THEN e[k] ELSE d[k]]

EmptyDict == [k \in {} |-> None]

RECURSIVE Gcd(_, _)
Gcd(a, b) == IF b = 0 THEN a ELSE Gcd(b, a % b)

\* a / b for numbers a >= 0, b > 0, as an exact fraction.
Fraction(a, b) == [num |-> a \div Gcd(a, b), den |-> b \div Gcd(a, b)]

Zero == [num |-> 0, den |-> 1]

List(items) == [items |-> items, maxlen |-> None]

Deque(items, maxlen) == [items |-> items, maxlen |-> maxlen]

\* list.append, and deque.append, which discards from the left when full.
SeqAppendDropNewest(s, x) ==
    IF s.maxlen = None THEN [s EXCEPT !.items = Append(@, x)]
    ELSE IF Len(s.items) >= s.maxlen THEN s
    ELSE [s EXCEPT !.items = Append(@, x)]

SeqAppend(s, x) ==
    IF s.maxlen = None THEN [s EXCEPT !.items = Append(@, x)]
    ELSE IF s.maxlen = 0 THEN s
    ELSE IF Len(s.items) >= s.maxlen THEN [s EXCEPT !.items = Append(Tail(@), x)]
    ELSE [s EXCEPT !.items = Append(@, x)]

\* deque.extend(xs): append each element in order.
RECURSIVE SeqExtend(_, _)
SeqExtend(s, xs) ==
    IF xs = <<>> THEN s ELSE SeqExtend(SeqAppend(s, Head(xs)), Tail(xs))

Reverse(s) == [i \in 1..Len(s) |-> s[Len(s) + 1 - i]]

\* sorted(values), ascending (insertion sort).
RECURSIVE Insert(_, _)
Insert(s, x) ==
    IF s = <<>> THEN <<x>>
    ELSE IF x <= Head(s) THEN <<x>> \o s
    ELSE <<Head(s)>> \o Insert(Tail(s), x)

RECURSIVE Sorted(_)
Sorted(s) == IF s = <<>> THEN <<>> ELSE Insert(Sorted(Tail(s)), Head(s))

\* s[-limit:] of a Python list, for limit >= 0 (s[-0:] is the whole list).
LastSlice(s, limit) ==
    IF limit = 0 \/ limit >= Len(s) THEN s
    ELSE SubSeq(s, Len(s) - limit + 1, Len(s))

\* ------------------------------------------------------------------ state
VARIABLES
    lite_obs,          \* LiteObservability: is_initialized, and whether data_store is set
    config,            \* ConfigManager.config: the options the store reads
    metrics,           \* DataStore.metrics: name -> inner dict
    traces,            \* DataStore.traces: deque(maxlen = max_traces)
    errors,            \* DataStore.errors: deque(maxlen = max_errors)
    custom_metrics,    \* DataStore.custom_metrics: name -> {values, attributes}
    resource_metrics,  \* DataStore.resource_metrics: deque(maxlen = max_metric_points)
    request_metrics,   \* DataStore.request_metrics: deque(maxlen = max_metric_points)
    callbacks,         \* DataStore._callbacks: event -> list of callbacks
    lock,              \* DataStore._lock: the thread that owns the RLock, or NoThread
    now,               \* time.time()
    pc,                \* per thread: where it stands in the operation it runs
    frame,             \* per thread: the locals of the operation it runs
    ret,               \* per thread: what its last operation returned (or raised)
    worker,            \* persist_worker: its position and the locals of _persist_data
    disk,              \* persistence_path / data.json
    hist               \* history variables: what was issued, recorded and delivered

store == <<metrics, traces, errors, custom_metrics, resource_metrics, request_metrics>>

vars == <<lite_obs, config, metrics, traces, errors, custom_metrics, resource_metrics,
          request_metrics, callbacks, lock, now, pc, frame, ret, worker, disk, hist>>

Events == {"request", "trace", "error", "resource", "customMetric", "clear"}

SeriesNames == {"http_request_duration_seconds", "http_requests_per_minute",
                "process_cpu_percent", "process_memory_bytes", "process_memory_percent",
                "system_load_average", "system_memory_usage"}

\* _initialize_metrics: every series starts as an empty plain list.
InitialMetrics(t) ==
    [http_requests_total |-> [value |-> 0, timestamp |-> t],
     http_request_duration_seconds |-> [values |-> List(<<>>), timestamp |-> t],
     http_requests_per_minute |-> [values |-> List(<<>>), timestamp |-> t],
     http_error_rate |-> [value |-> Zero, timestamp |-> t],
     active_requests |-> [value |-> 0, timestamp |-> t],
     process_cpu_percent |-> [values |-> List(<<>>), timestamp |-> t],
     process_memory_bytes |-> [values |-> List(<<>>), timestamp |-> t],
     process_memory_percent |-> [values |-> List(<<>>), timestamp |-> t],
     system_load_average |-> [values |-> List(<<>>), timestamp |-> t],
     system_memory_usage |-> [values |-> List(<<>>), timestamp |-> t]]

\* _add_time_series on the metrics dict m.
AddTimeSeries(m, metric_name, value, timestamp) ==
    LET metric == m[metric_name]
        withValues ==
            IF "values" \notin DOMAIN metric
            THEN Update(metric, [values |-> Deque(<<>>, config.max_metric_points)])
            ELSE metric
    IN  [m EXCEPT ![metric_name] =
            [withValues EXCEPT
                !.values = SeqAppend(@, [value |-> value, timestamp |-> timestamp]),
                !.timestamp = timestamp]]

RecentRequestsInclusive(reqs, t, window) ==
    SelectSeq(reqs.items, LAMBDA req : req.timestamp >= t - window)

\* [req for req in self.request_metrics if req['timestamp'] > t - window]
RecentRequests(reqs, t, window) ==
    SelectSeq(reqs.items, LAMBDA req : req.timestamp > t - window)

ErrorRequests(recent) ==
    SelectSeq(recent, LAMBDA req : req.status_code >= ErrorStatus)

\* (len(error_requests) / len(recent_requests) * 100) if recent_requests else 0.0
ErrorRate(recent) ==
    IF recent = <<>> THEN Zero
    ELSE Fraction(Len(ErrorRequests(recent)) * 100, Len(recent))

\* _calculate_requests_per_minute
CalculateRequestsPerMinute(m, reqs, t) ==
    AddTimeSeries(m, "http_requests_per_minute",
                  Len(RecentRequests(reqs, t, RpmWindow)), t)

\* _update_error_rate
UpdateErrorRate(m, reqs, t) ==
    [m EXCEPT !["http_error_rate"] =
        [value |-> ErrorRate(RecentRequests(reqs, t, ErrorWindow)), timestamp |-> t]]

\* A percentile by the rounded rank, int(len(values) * percentile + 0.5).
PercentileRoundedRank(values, pct) ==
    IF values = <<>> THEN None
    ELSE LET index == (Len(values) * pct + 50) \div 100
         IN  IF index >= Len(values) THEN values[Len(values)] ELSE values[index + 1]

\* _percentile(values, pct / 100): int(len(values) * percentile), clamped.
Percentile(values, pct) ==
    IF values = <<>> THEN None
    ELSE LET index == (Len(values) * pct) \div 100
         IN  IF index >= Len(values) THEN values[Len(values)] ELSE values[index + 1]

\* x or 0
OrZero(x) == IF x = None THEN 0 ELSE x

\* _get_latest_resource_metrics
LatestResourceMetrics(t) ==
    IF resource_metrics.items = <<>> THEN EmptyDict
    ELSE LET latest == resource_metrics.items[Len(resource_metrics.items)]
         IN  [cpu |-> Get(latest, "cpu", 0),
              memory |-> Get(latest, "memory", EmptyDict),
              system |-> Get(latest, "system", EmptyDict),
              timestamp |-> Get(latest, "timestamp", t)]

\* _get_metrics_summary at time t.
MetricsSummary(t) ==
    LET recent_requests == RecentRequests(request_metrics, t, ErrorWindow)
        durations == Sorted([i \in 1..Len(recent_requests) |-> recent_requests[i].duration])
    IN  [requests |->
            [total |-> metrics["http_requests_total"].value,
             per_minute |-> Len(recent_requests),
             error_rate |-> ErrorRate(recent_requests),
             latency |-> [p50 |-> OrZero(Percentile(durations, 50)),
                          p95 |-> OrZero(Percentile(durations, 95)),
                          p99 |-> OrZero(Percentile(durations, 99))]],
         resources |-> LatestResourceMetrics(t),
         errors |-> Len(errors.items),
         traces |-> Len(traces.items)]

\* ------------------------------------------------------------- the threads
IdleFrame ==
    [op |-> "none", event |-> "none", arg |-> EmptyDict, now |-> 0, tmp |-> 0,
     idx |-> 0, serial |-> 0]

\* What an operation returns is kept as a record: [none] for None, [entries] for
\* a list, the dict itself for a dict.
ReturnsNone == [none |-> TRUE]

NoResult ==
    [op |-> "none", serial |-> 0, raised |-> FALSE, torn |-> FALSE, value |-> ReturnsNone]

Live == [live |-> TRUE]

Frozen(v) == [live |-> FALSE, val |-> v]

\* threading.RLock: free, or already owned by the calling thread.
LockFreeUnlocked(t) == TRUE

LockFree(t) == lock = NoThread \/ lock = t

\* A thread may begin an operation: it is between calls and the behaviour's
\* budget of operations is not used up.
CanStart(t) == pc[t] = "idle" /\ hist.ops < MaxOps

\* `with self._lock:` entered by thread t for operation op with argument arg.
Enter(t, op, event, arg, next) ==
    /\ CanStart(t)
    /\ LockFree(t)
    /\ lock' = t
    /\ pc' = [pc EXCEPT ![t] = next]
    /\ frame' = [frame EXCEPT ![t] =
                    [op |-> op, event |-> event, arg |-> arg, now |-> now, tmp |-> 0,
                     idx |-> 1, serial |-> hist.ops + 1]]

\* The operation of thread t returns v: the with block releases the lock.
Return(t, v) ==
    /\ lock' = NoThread
    /\ pc' = [pc EXCEPT ![t] = "idle"]
    /\ frame' = [frame EXCEPT ![t] = IdleFrame]
    /\ ret' = [ret EXCEPT ![t] =
                  [op |-> frame[t].op, serial |-> frame[t].serial, raised |-> FALSE,
                   torn |-> FALSE, value |-> v]]

\* An exception leaves the with block of thread t: the lock is released and the
\* exception reaches the caller.
Raise(t) ==
    /\ lock' = NoThread
    /\ pc' = [pc EXCEPT ![t] = "idle"]
    /\ frame' = [frame EXCEPT ![t] = IdleFrame]
    /\ ret' = [ret EXCEPT ![t] =
                  [op |-> frame[t].op, serial |-> frame[t].serial, raised |-> TRUE,
                   torn |-> FALSE, value |-> ReturnsNone]]

Goto(t, next) == pc' = [pc EXCEPT ![t] = next]

\* No operation is between two of its updates of the store.
Quiescent == \A u \in Threads : pc[u] \notin {"rr_duration", "rr_status", "rr_append", "rr_rpm"}

\* The persistable content of the store, as one copy made under the lock would
\* hold it.
StoreDocument ==
    [metrics |-> [k \in DOMAIN metrics |->
                     IF "values" \in DOMAIN metrics[k]
                     THEN [metrics[k] EXCEPT !.values = @.items]
                     ELSE metrics[k]],
     custom_metrics |-> [k \in DOMAIN custom_metrics |->
                            [values |-> custom_metrics[k].values.items,
                             attributes |-> custom_metrics[k].attributes]],
     traces |-> traces.items,
     errors |-> errors.items,
     request_metrics |-> request_metrics.items,
     resource_metrics |-> resource_metrics.items]

\* One mutation of the store was made (history): while _persist_data runs, the
\* contents the store has between operations are kept in instants.
Mutated(h) ==
    [h EXCEPT !.instants = IF worker.pc \notin {"sleep", "off"} /\ Quiescent'
                           THEN @ \cup {StoreDocument'}
                           ELSE @]

\* ------------------------------------------------------------------ clock
TickSteps == {60, 300}

Tick(d) ==
    /\ hist.ops < MaxOps
    /\ now' = now + d
    /\ hist' = [hist EXCEPT !.ops = @ + 1]
    /\ UNCHANGED <<lite_obs, config, metrics, traces, errors, custom_metrics, resource_metrics,
                   request_metrics, callbacks, lock, pc, frame, ret, worker, disk>>

\* -------------------------------------------------------------- event bus
CallbackKinds == {"returns", "raises"}

\* on(event, callback) with the callback put in front of the list.
OnFront(event, kind) ==
    /\ hist.subs < MaxCallbacks
    /\ callbacks' = [callbacks EXCEPT ![event] =
                        <<[id |-> hist.subs + 1, kind |-> kind]>> \o @]
    /\ hist' = [hist EXCEPT !.subs = @ + 1]
    /\ UNCHANGED <<lite_obs, config, metrics, traces, errors, custom_metrics, resource_metrics,
                   request_metrics, lock, now, pc, frame, ret, worker, disk>>

\* on(event, callback)
On(event, kind) ==
    /\ hist.subs < MaxCallbacks
    /\ callbacks' = [callbacks EXCEPT ![event] =
                        Append(@, [id |-> hist.subs + 1, kind |-> kind])]
    /\ hist' = [hist EXCEPT !.subs = @ + 1]
    /\ UNCHANGED <<lite_obs, config, metrics, traces, errors, custom_metrics, resource_metrics,
                   request_metrics, lock, now, pc, frame, ret, worker, disk>>

\* emit, the loop head: the next callback is called, or the loop is over and the
\* operation returns.
EmitNext(t) ==
    /\ pc[t] = "emit"
    /\ IF frame[t].idx > Len(callbacks[frame[t].event])
       THEN /\ Return(t, ReturnsNone)
            /\ hist' = [hist EXCEPT !.listeners =
                            Append(@, [serial |-> frame[t].serial,
                                       event |-> frame[t].event,
                                       n |-> Len(callbacks[frame[t].event])])]
       ELSE /\ Goto(t, "callback")
            /\ hist' = [hist EXCEPT !.delivered =
                            Append(@, [serial |-> frame[t].serial,
                                       event |-> frame[t].event,
                                       id |-> callbacks[frame[t].event][frame[t].idx].id])]
            /\ UNCHANGED <<lock, frame, ret>>
    /\ UNCHANGED <<lite_obs, config, metrics, traces, errors, custom_metrics, resource_metrics,
                   request_metrics, callbacks, now, worker, disk>>

\* except Exception: what a callback raises is caught inside the loop.
ExceptionPropagates(kind) == FALSE

ExceptionCaught(kind) == TRUE

\* emit, callback(data) ends: it returned, or it raised and the exception was
\* caught (or it was not, and it leaves emit and the operation).
CallbackEnds(t) ==
    /\ pc[t] = "callback"
    /\ LET kind == callbacks[frame[t].event][frame[t].idx].kind
       IN  IF kind = "raises" /\ ~ExceptionCaught(kind)
           THEN Raise(t)
           ELSE /\ Goto(t, "emit")
                /\ frame' = [frame EXCEPT ![t].idx = @ + 1]
                /\ UNCHANGED <<lock, ret>>
    /\ UNCHANGED <<lite_obs, config, metrics, traces, errors, custom_metrics, resource_metrics,
                   request_metrics, callbacks, now, worker, disk, hist>>

\* --------------------------------------------------------- record_request
\* The record that record_request stores in the request log.
RequestRecord(request_data, timestamp) ==
    [timestamp |-> timestamp,
     method |-> Get(request_data, "method", "GET"),
     path |-> Get(request_data, "path", "/"),
     status_code |-> Get(request_data, "status_code", DefaultStatus),
     duration |-> Get(request_data, "duration", DefaultDuration),
     user_agent |-> Get(request_data, "user_agent", "None"),
     ip |-> Get(request_data, "ip", "None")]

\* with self._lock: now = time.time()
RecordRequestEnter(t, request_data) ==
    /\ Enter(t, "record_request", "request", request_data, "rr_read")
    /\ hist' = [hist EXCEPT !.ops = @ + 1, !.expected_total = @ + 1]
    /\ UNCHANGED <<lite_obs, config, metrics, traces, errors, custom_metrics, resource_metrics,
                   request_metrics, callbacks, now, ret, worker, disk>>

\* self.metrics['http_requests_total']['value'] += 1, the read
RecordRequestRead(t) ==
    /\ pc[t] = "rr_read"
    /\ frame' = [frame EXCEPT ![t].tmp = metrics["http_requests_total"].value]
    /\ Goto(t, "rr_write")
    /\ UNCHANGED <<lite_obs, config, metrics, traces, errors, custom_metrics, resource_metrics,
                   request_metrics, callbacks, lock, now, ret, worker, disk, hist>>

\* ... the addition, which raises TypeError on a null value, the write, and
\* ['timestamp'] = now
RecordRequestWrite(t) ==
    /\ pc[t] = "rr_write"
    /\ IF frame[t].tmp = None
       THEN /\ Raise(t)
            /\ UNCHANGED metrics
       ELSE /\ metrics' = [metrics EXCEPT !["http_requests_total"] =
                              [value |-> frame[t].tmp + 1, timestamp |-> frame[t].now]]
            /\ Goto(t, "rr_duration")
            /\ UNCHANGED <<lock, frame, ret>>
    /\ UNCHANGED <<lite_obs, config, traces, errors, custom_metrics, resource_metrics,
                   request_metrics, callbacks, now, worker, disk>>
    /\ hist' = Mutated(hist)

\* duration = request_data.get('duration', 0); _add_time_series(..., duration / 1000, now)
RecordRequestDuration(t) ==
    /\ pc[t] = "rr_duration"
    /\ LET duration == Get(frame[t].arg, "duration", DefaultDuration)
       IN  IF duration = None
           THEN /\ Raise(t)
                /\ UNCHANGED metrics
           ELSE /\ metrics' = AddTimeSeries(metrics, "http_request_duration_seconds",
                                            Fraction(duration, MsPerSecond), frame[t].now)
                /\ Goto(t, "rr_status")
                /\ UNCHANGED <<lock, frame, ret>>
    /\ UNCHANGED <<lite_obs, config, traces, errors, custom_metrics, resource_metrics,
                   request_metrics, callbacks, now, worker, disk>>
    /\ hist' = Mutated(hist)

\* status_code = request_data.get('status_code', 200); if status_code >= 400: _update_error_rate()
RecordRequestStatus(t) ==
    /\ pc[t] = "rr_status"
    /\ LET status_code == Get(frame[t].arg, "status_code", DefaultStatus)
       IN  IF status_code = None
           THEN /\ Raise(t)
                /\ UNCHANGED metrics
           ELSE /\ IF status_code >= ErrorStatus
                   THEN metrics' = UpdateErrorRate(metrics, request_metrics, now)
                   ELSE UNCHANGED metrics
                /\ Goto(t, "rr_append")
                /\ UNCHANGED <<lock, frame, ret>>
    /\ UNCHANGED <<lite_obs, config, traces, errors, custom_metrics, resource_metrics,
                   request_metrics, callbacks, now, worker, disk>>
    /\ hist' = Mutated(hist)

\* self.request_metrics.append({...})
RecordRequestAppend(t) ==
    /\ pc[t] = "rr_append"
    /\ LET record == RequestRecord(frame[t].arg, frame[t].now)
       IN  /\ request_metrics' = SeqAppend(request_metrics, record)
           /\ Goto(t, "rr_rpm")
           /\ UNCHANGED <<lite_obs, config, metrics, traces, errors, custom_metrics, resource_metrics,
                          callbacks, lock, now, frame, ret, worker, disk>>
           /\ hist' = [Mutated(hist) EXCEPT !.recorded.requests = Append(@, record)]

\* self._calculate_requests_per_minute(); then emit('request', request_data)
RecordRequestRpm(t) ==
    /\ pc[t] = "rr_rpm"
    /\ metrics' = CalculateRequestsPerMinute(metrics, request_metrics, now)
    /\ Goto(t, "emit")
    /\ UNCHANGED <<lite_obs, config, traces, errors, custom_metrics, resource_metrics,
                   request_metrics, callbacks, lock, now, frame, ret, worker, disk>>
    /\ hist' = Mutated(hist)

\* ------------------------------------------- record_trace and record_error
\* {'timestamp': time.time(), **data}: the payload's own timestamp would win.
StampedByCaller(data, timestamp) == Update([timestamp |-> timestamp], data)

\* {**data, 'timestamp': time.time()}
Stamped(data, timestamp) == Update(data, [timestamp |-> timestamp])

RecordTrace(t, trace_data) ==
    /\ Enter(t, "record_trace", "trace", trace_data, "emit")
    /\ LET trace_record == Stamped(trace_data, now)
       IN  /\ traces' = SeqAppend(traces, trace_record)
           /\ UNCHANGED <<lite_obs, config, metrics, errors, custom_metrics, resource_metrics,
                          request_metrics, callbacks, now, ret, worker, disk>>
           /\ hist' = [Mutated(hist) EXCEPT !.ops = @ + 1,
                                            !.recorded.traces = Append(@, trace_record)]

RecordError(t, error_data) ==
    /\ Enter(t, "record_error", "error", error_data, "emit")
    /\ LET error_record == Stamped(error_data, now)
       IN  /\ errors' = SeqAppend(errors, error_record)
           /\ UNCHANGED <<lite_obs, config, metrics, traces, custom_metrics, resource_metrics,
                          request_metrics, callbacks, now, ret, worker, disk>>
           /\ hist' = [Mutated(hist) EXCEPT !.ops = @ + 1,
                                            !.recorded.errors = Append(@, error_record)]

\* ------------------------------------------------- record_resource_metrics
\* The series points record_resource_metrics adds, one if at a time.
ResourceCpu(m, resource_data, t) ==
    IF "cpu" \in DOMAIN resource_data
    THEN AddTimeSeries(m, "process_cpu_percent", resource_data.cpu, t)
    ELSE m

ResourceMemory(m, resource_data, t) ==
    IF "memory" \in DOMAIN resource_data
    THEN LET memory == resource_data.memory
             m1 == IF "rss" \in DOMAIN memory
                   THEN AddTimeSeries(m, "process_memory_bytes", memory.rss, t)
                   ELSE m
         IN  IF "percent" \in DOMAIN memory
             THEN AddTimeSeries(m1, "process_memory_percent", memory.percent, t)
             ELSE m1
    ELSE m

ResourceSystem(m, resource_data, t) ==
    IF "system" \in DOMAIN resource_data
    THEN LET system == resource_data.system
             m1 == IF "load_average" \in DOMAIN system /\ system.load_average # <<>>
                   THEN AddTimeSeries(m, "system_load_average", system.load_average[1], t)
                   ELSE m
         IN  IF "memory" \in DOMAIN system
             THEN AddTimeSeries(m1, "system_memory_usage",
                                Get(system.memory, "percent", 0), t)
             ELSE m1
    ELSE m

RecordResourceMetrics(t, resource_data) ==
    /\ Enter(t, "record_resource_metrics", "resource", resource_data, "emit")
    /\ LET resource_record == Update([timestamp |-> now], resource_data)
       IN  /\ metrics' = ResourceSystem(ResourceMemory(ResourceCpu(metrics, resource_data, now),
                                                       resource_data, now),
                                        resource_data, now)
           /\ resource_metrics' = SeqAppend(resource_metrics, resource_record)
           /\ UNCHANGED <<lite_obs, config, traces, errors, custom_metrics, request_metrics, callbacks,
                          now, ret, worker, disk>>
           /\ hist' = [Mutated(hist) EXCEPT !.ops = @ + 1,
                                            !.recorded.resources = Append(@, resource_record)]

\* ---------------------------------------------------- record_custom_metric
CustomNames == {"x", "y"}

RecordCustomMetric(t, name, value, attributes) ==
    /\ Enter(t, "record_custom_metric", "customMetric",
             [name |-> name, value |-> value, attributes |-> attributes], "emit")
    /\ LET created ==
               IF name \notin DOMAIN custom_metrics
               THEN Update(custom_metrics,
                           name :> [values |-> Deque(<<>>, config.max_metric_points),
                                    attributes |-> EmptyDict])
               ELSE custom_metrics
           point == [value |-> value, timestamp |-> now]
       IN  /\ custom_metrics' =
                  [created EXCEPT ![name] =
                      [values |-> SeqAppend(@.values, point),
                       attributes |-> Update(@.attributes, attributes)]]
           /\ UNCHANGED <<lite_obs, config, metrics, traces, errors, resource_metrics,
                          request_metrics, callbacks, now, ret, worker, disk>>
           /\ hist' = [Mutated(hist) EXCEPT !.ops = @ + 1,
                                            !.recorded.custom[name] = Append(@, point),
                                            !.written[name] = Append(@, attributes)]

\* ----------------------------------------------------- held references
FreezeRef(r, v) == IF r.live THEN Frozen(v) ELSE r

Deref(r, v) == IF r.live THEN v ELSE r.val

\* The custom part of a copy: list(v['values']) is a new list, v['attributes']
\* is the metric's own dict.
CustomCopy ==
    [k \in DOMAIN custom_metrics |->
        [values |-> custom_metrics[k].values.items, attributes |-> Live]]

FreezeCustom(c) ==
    [k \in DOMAIN c |->
        [values |-> c[k].values,
         attributes |-> IF c[k].attributes.live
                        THEN Frozen(custom_metrics[k].attributes)
                        ELSE c[k].attributes]]

DerefCustom(c) ==
    [k \in DOMAIN c |->
        [values |-> c[k].values,
         attributes |-> IF c[k].attributes.live
                        THEN custom_metrics[k].attributes
                        ELSE c[k].attributes.val]]

\* What the holder of a get_metrics result r reads through it now.
Observed(r) ==
    [system |-> Deref(r.value.system, metrics),
     custom |-> DerefCustom(r.value.custom),
     summary |-> r.value.summary]

\* The store drops its metric objects (clear): whoever holds them keeps them as
\* they are now.
FreezeResult(r) ==
    IF r.op = "get_metrics"
    THEN [r EXCEPT !.value.system = FreezeRef(@, metrics),
                   !.value.custom = FreezeCustom(@)]
    ELSE r

FreezeWorker(w) ==
    [w EXCEPT !.data.metrics = FreezeRef(@, metrics),
              !.data.custom_metrics = FreezeCustom(@)]

\* ------------------------------------------------------------------ clear
\* The attribute maps written to each custom metric since it was created
\* (history): none.
NoWritten == [k \in CustomNames |-> <<>>]

NoRecorded ==
    [traces |-> <<>>, errors |-> <<>>, requests |-> <<>>, resources |-> <<>>,
     custom |-> [k \in CustomNames |-> <<>>]]

\* A clear that leaves the custom metrics in place.
ClearKeepsCustom(t) ==
    /\ Enter(t, "clear", "clear", EmptyDict, "emit")
    /\ metrics' = InitialMetrics(now)
    /\ custom_metrics' = custom_metrics
    /\ traces' = [traces EXCEPT !.items = <<>>]
    /\ errors' = [errors EXCEPT !.items = <<>>]
    /\ request_metrics' = [request_metrics EXCEPT !.items = <<>>]
    /\ resource_metrics' = [resource_metrics EXCEPT !.items = <<>>]
    /\ ret' = [u \in Threads |-> FreezeResult(ret[u])]
    /\ worker' = FreezeWorker(worker)
    /\ UNCHANGED <<lite_obs, config, callbacks, now, disk>>
    /\ hist' = [Mutated(hist) EXCEPT !.ops = @ + 1, !.expected_total = 0,
                                     !.recorded = NoRecorded, !.written = NoWritten]

\* clear
Clear(t) ==
    /\ Enter(t, "clear", "clear", EmptyDict, "emit")
    /\ metrics' = InitialMetrics(now)
    /\ custom_metrics' = EmptyDict
    /\ traces' = [traces EXCEPT !.items = <<>>]
    /\ errors' = [errors EXCEPT !.items = <<>>]
    /\ request_metrics' = [request_metrics EXCEPT !.items = <<>>]
    /\ resource_metrics' = [resource_metrics EXCEPT !.items = <<>>]
    /\ ret' = [u \in Threads |-> FreezeResult(ret[u])]
    /\ worker' = FreezeWorker(worker)
    /\ UNCHANGED <<lite_obs, config, callbacks, now, disk>>
    /\ hist' = [Mutated(hist) EXCEPT !.ops = @ + 1, !.expected_total = 0,
                                     !.recorded = NoRecorded, !.written = NoWritten]

\* ------------------------------------------------------------ the readers
\* A write of another thread is partly applied: some of record_request's updates
\* are made and some are still to come.
MidWrite(u) == pc[u] \in {"rr_duration", "rr_status", "rr_append", "rr_rpm"}

\* A reader's whole body runs under the lock, in one step.
Read(t, op, v) ==
    /\ CanStart(t)
    /\ LockFree(t)
    /\ ret' = [ret EXCEPT ![t] =
                  [op |-> op, serial |-> hist.ops + 1, raised |-> FALSE,
                   torn |-> \E u \in Threads \ {t} : MidWrite(u), value |-> v]]
    /\ hist' = [hist EXCEPT !.ops = @ + 1]
    /\ UNCHANGED <<lite_obs, config, metrics, traces, errors, custom_metrics, resource_metrics,
                   request_metrics, callbacks, lock, now, pc, frame, worker, disk>>

\* The dict get_metrics builds.
MetricsResult == [system |-> Live, custom |-> CustomCopy, summary |-> MetricsSummary(now)]

GetMetrics(t) == Read(t, "get_metrics", MetricsResult)

\* traces[-limit:][::-1]
GetTraces(t, limit) ==
    Read(t, "get_traces", [entries |-> Reverse(LastSlice(traces.items, limit))])

GetErrors(t, limit) ==
    Read(t, "get_errors", [entries |-> Reverse(LastSlice(errors.items, limit))])

GetRequests(t, limit) ==
    Read(t, "get_requests", [entries |-> Reverse(LastSlice(request_metrics.items, limit))])

\* The dict get_stats builds.
Stats ==
    [metrics |-> Cardinality(DOMAIN metrics),
     custom_metrics |-> Cardinality(DOMAIN custom_metrics),
     traces |-> Len(traces.items),
     errors |-> Len(errors.items),
     requests |-> Len(request_metrics.items),
     resource_metrics |-> Len(resource_metrics.items)]

GetStats(t) == Read(t, "get_stats", Stats)

\* ------------------------------------------------------------ persistence
\* json.dump of the metrics dict: a list is written as a JSON array; a deque is
\* not serializable.
Serializable(m) ==
    \A k \in DOMAIN m : "values" \in DOMAIN m[k] => m[k].values.maxlen = None

ToJson(m) ==
    [k \in DOMAIN m |->
        IF "values" \in DOMAIN m[k] THEN [m[k] EXCEPT !.values = @.items] ELSE m[k]]

\* json.load: a JSON array becomes a plain list.
FromJson(j) ==
    [k \in DOMAIN j |->
        IF "values" \in DOMAIN j[k] THEN [j[k] EXCEPT !.values = List(@)] ELSE j[k]]

NoFile == [written |-> FALSE]

BrokenFile == [written |-> TRUE, valid |-> FALSE]

\* A file that is JSON but not a document of the store: the counter is null and
\* 'traces' is a number.
MalformedFile ==
    [written |-> TRUE, valid |-> TRUE,
     metrics |-> [http_requests_total |-> [value |-> None, timestamp |-> 0]],
     custom_metrics |-> EmptyDict, traces |-> <<>>, errors |-> <<>>,
     request_metrics |-> <<>>, resource_metrics |-> <<>>, timestamp |-> 0,
     traces_is_list |-> FALSE]

NoData ==
    [metrics |-> Frozen(EmptyDict), custom_metrics |-> EmptyDict, traces |-> <<>>,
     errors |-> <<>>, request_metrics |-> <<>>, resource_metrics |-> <<>>]

\* The persist_worker thread.
WorkerStart(t) == [pc |-> "sleep", wake |-> t + PersistInterval, data |-> NoData]

WorkerOff == [pc |-> "off", wake |-> 0, data |-> NoData]

WorkerFrame ==
    UNCHANGED <<lite_obs, config, metrics, traces, errors, custom_metrics, resource_metrics,
                request_metrics, callbacks, lock, now, pc, frame, ret>>

\* time.sleep(60) is over; _persist_data: 'metrics': dict(self.metrics)
PersistBegin ==
    /\ worker.pc = "sleep"
    /\ now >= worker.wake
    /\ config.persistence
    /\ worker' = [worker EXCEPT !.pc = "copy_custom", !.data = [NoData EXCEPT !.metrics = Live]]
    /\ hist' = [hist EXCEPT !.instants = IF Quiescent THEN {StoreDocument} ELSE {}]
    /\ UNCHANGED disk
    /\ WorkerFrame

\* 'custom_metrics': {k: {'values': list(v['values']), 'attributes': v['attributes']} ...}
PersistCopyCustom ==
    /\ worker.pc = "copy_custom"
    /\ worker' = [worker EXCEPT !.pc = "copy_traces", !.data.custom_metrics = CustomCopy]
    /\ UNCHANGED <<disk, hist>>
    /\ WorkerFrame

\* 'traces': list(self.traces)
PersistCopyTraces ==
    /\ worker.pc = "copy_traces"
    /\ worker' = [worker EXCEPT !.pc = "copy_errors", !.data.traces = traces.items]
    /\ UNCHANGED <<disk, hist>>
    /\ WorkerFrame

\* 'errors': list(self.errors)
PersistCopyErrors ==
    /\ worker.pc = "copy_errors"
    /\ worker' = [worker EXCEPT !.pc = "copy_requests", !.data.errors = errors.items]
    /\ UNCHANGED <<disk, hist>>
    /\ WorkerFrame

\* 'request_metrics': list(self.request_metrics)
PersistCopyRequests ==
    /\ worker.pc = "copy_requests"
    /\ worker' = [worker EXCEPT !.pc = "copy_resources", !.data.request_metrics = request_metrics.items]
    /\ UNCHANGED <<disk, hist>>
    /\ WorkerFrame

\* 'resource_metrics': list(self.resource_metrics)
PersistCopyResources ==
    /\ worker.pc = "copy_resources"
    /\ worker' = [worker EXCEPT !.pc = "dump", !.data.resource_metrics = resource_metrics.items]
    /\ UNCHANGED <<disk, hist>>
    /\ WorkerFrame

\* The document json.dump writes: the inner metric dicts and the attribute dicts
\* are read now, through the references the copy holds.
Document(data, t) ==
    [written |-> TRUE, valid |-> TRUE,
     metrics |-> ToJson(Deref(data.metrics, metrics)),
     custom_metrics |-> DerefCustom(data.custom_metrics),
     traces |-> data.traces,
     errors |-> data.errors,
     request_metrics |-> data.request_metrics,
     resource_metrics |-> data.resource_metrics,
     timestamp |-> t]

\* with open(...,'w') as f: json.dump(data, f); the worker sleeps again.
PersistDump ==
    /\ worker.pc = "dump"
    /\ disk' = IF Serializable(Deref(worker.data.metrics, metrics))
               THEN Document(worker.data, now)
               ELSE BrokenFile
    /\ worker' = WorkerStart(now)
    /\ hist' = [hist EXCEPT !.instants = {}, !.persisted = hist.instants]
    /\ WorkerFrame

\* A deque of capacity n that keeps the first n of items.
DequeKeepsOldest(items, n) ==
    Deque(IF Len(items) > n THEN SubSeq(items, 1, n) ELSE items, n)

\* deque(items, maxlen=n)
DequeOf(items, n) == SeqExtend(Deque(<<>>, n), items)

\* LiteObservability after __init__, and after an init() that went through.
NotInitialized == [is_initialized |-> FALSE, data_store |-> FALSE]

Initialized == [is_initialized |-> TRUE, data_store |-> TRUE]

\* DataStore(new_config) in a new process, and _load_persisted_data when
\* persistence is on. The load stops at the first part
\* of the file that raises, with the parts before it restored: json.load, the
\* metrics, the custom metrics, then traces.extend and the other logs.
Construct(new_config) ==
    /\ hist.ops < MaxOps
    /\ \A t \in Threads : pc[t] = "idle"
    /\ worker.pc \in {"sleep", "off"}
    /\ LET load == new_config.persistence /\ disk.written /\ disk.valid
           whole == load /\ Get(disk, "traces_is_list", TRUE)
       IN  /\ metrics' = IF load THEN Update(InitialMetrics(now), FromJson(disk.metrics))
                         ELSE InitialMetrics(now)
           /\ custom_metrics' =
                  IF load
                  THEN [k \in DOMAIN disk.custom_metrics |->
                           [values |-> DequeOf(disk.custom_metrics[k].values,
                                               new_config.max_metric_points),
                            attributes |-> disk.custom_metrics[k].attributes]]
                  ELSE EmptyDict
           /\ traces' = DequeOf(IF whole THEN disk.traces ELSE <<>>, new_config.max_traces)
           /\ errors' = DequeOf(IF whole THEN disk.errors ELSE <<>>, new_config.max_errors)
           /\ request_metrics' = DequeOf(IF whole THEN disk.request_metrics ELSE <<>>,
                                         new_config.max_metric_points)
           /\ resource_metrics' = DequeOf(IF whole THEN disk.resource_metrics ELSE <<>>,
                                          new_config.max_metric_points)
           /\ hist' = [Mutated(hist) EXCEPT
                          !.ops = @ + 1,
                          !.shut = FALSE,
                          !.expected_total =
                              IF load THEN disk.metrics["http_requests_total"].value ELSE 0,
                          !.recorded =
                              IF whole
                              THEN [traces |-> disk.traces, errors |-> disk.errors,
                                    requests |-> disk.request_metrics,
                                    resources |-> disk.resource_metrics,
                                    custom |-> [k \in CustomNames |->
                                                   IF k \in DOMAIN disk.custom_metrics
                                                   THEN disk.custom_metrics[k].values
                                                   ELSE <<>>]]
                              ELSE NoRecorded,
                          !.written =
                              IF load
                              THEN [k \in CustomNames |->
                                       IF k \in DOMAIN disk.custom_metrics
                                       THEN <<disk.custom_metrics[k].attributes>>
                                       ELSE <<>>]
                              ELSE NoWritten]
    /\ callbacks' = [e \in Events |-> <<>>]
    /\ lock' = NoThread
    /\ ret' = [t \in Threads |-> NoResult]
    /\ worker' = IF new_config.persistence THEN WorkerStart(now) ELSE WorkerOff
    /\ config' = new_config
    /\ UNCHANGED <<now, pc, frame, disk>>

\* A process start with the configuration new_config, by an init() that goes
\* through.
RestartWith(new_config) == Construct(new_config) /\ lite_obs' = Initialized

\* A process start with the configuration unchanged.
Restart == RestartWith(config)

\* ------------------------------------------------------- initial state
NoHistory ==
    [ops |-> 0, subs |-> 0, shut |-> FALSE, instants |-> {}, persisted |-> {},
     expected_total |-> 0,
     recorded |-> NoRecorded, written |-> NoWritten, delivered |-> <<>>, listeners |-> <<>>]

\* The store after DataStore(config) where there was no file on disk, with file
\* there now.
StoreBuilt(persistence, file) ==
    /\ config = [max_traces |-> max_traces, max_errors |-> max_errors,
                 max_metric_points |-> max_metric_points, persistence |-> persistence]
    /\ metrics = InitialMetrics(0)
    /\ traces = Deque(<<>>, max_traces)
    /\ errors = Deque(<<>>, max_errors)
    /\ custom_metrics = EmptyDict
    /\ resource_metrics = Deque(<<>>, max_metric_points)
    /\ request_metrics = Deque(<<>>, max_metric_points)
    /\ callbacks = [e \in Events |-> <<>>]
    /\ lock = NoThread
    /\ now = 0
    /\ pc = [t \in Threads |-> "idle"]
    /\ frame = [t \in Threads |-> IdleFrame]
    /\ ret = [t \in Threads |-> NoResult]
    /\ worker = IF persistence THEN WorkerStart(0) ELSE WorkerOff
    /\ disk = file
    /\ hist = NoHistory

\* The state after init(): the store held by an initialized LiteObservability.
Built(persistence, file) == lite_obs = Initialized /\ StoreBuilt(persistence, file)

\* The state after DataStore(config), with no file on disk.
Constructed(persistence) == Built(persistence, NoFile)

\* --------------------------------------------------------------- inputs
RequestPayloads ==
    {[status_code |-> 200, duration |-> 10],
     [status_code |-> 400, duration |-> 20],
     [method |-> "POST", path |-> "/a"]}

TracePayloads == {[name |-> "a"], [name |-> "b", timestamp |-> 999]}

ErrorPayloads == {[message |-> "e"], [message |-> "f"]}

ResourcePayloads ==
    {[cpu |-> 5, memory |-> [rss |-> 100, percent |-> 7],
      system |-> [load_average |-> <<1, 2>>, memory |-> [percent |-> 9]]],
     [memory |-> [rss |-> 200], system |-> [load_average |-> <<>>, memory |-> [total |-> 1]]]}

CustomCalls ==
    {[name |-> "x", value |-> 1, attributes |-> [a |-> 1]],
     [name |-> "x", value |-> 2, attributes |-> [b |-> 2]],
     [name |-> "y", value |-> 3, attributes |-> [a |-> 3]]}

\* ------------------------------------------------------- specifications
\* The steps inside an operation that a thread has entered.
Step(t) ==
    \/ RecordRequestRead(t)
    \/ RecordRequestWrite(t)
    \/ RecordRequestDuration(t)
    \/ RecordRequestStatus(t)
    \/ RecordRequestAppend(t)
    \/ RecordRequestRpm(t)
    \/ EmitNext(t)

\* Spec: one client thread, every writer of the store and get_metrics, the clock;
\* no subscriber, persistence off.
Init == Constructed(FALSE)

Next ==
    \/ \E d \in TickSteps : Tick(d)
    \/ \E r \in RequestPayloads : RecordRequestEnter(1, r)
    \/ \E r \in TracePayloads : RecordTrace(1, r)
    \/ \E r \in ErrorPayloads : RecordError(1, r)
    \/ \E r \in ResourcePayloads : RecordResourceMetrics(1, r)
    \/ \E c \in CustomCalls : RecordCustomMetric(1, c.name, c.value, c.attributes)
    \/ Clear(1)
    \/ GetMetrics(1)
    \/ Step(1)

Spec == Init /\ [][Next]_vars

\* SpecBus: one client thread, subscribers that return or raise, and the
\* operations that publish to them.
BusEvents == {"trace", "clear"}

NextBus ==
    \/ \E e \in BusEvents, k \in CallbackKinds : On(e, k)
    \/ \E r \in TracePayloads : RecordTrace(1, r)
    \/ Clear(1)
    \/ EmitNext(1)
    \/ CallbackEnds(1)

SpecBus == Init /\ [][NextBus]_vars

\* SpecConc: two client threads that write and read at the same time, with
\* subscribers to the request event.
ConcPayloads == {[status_code |-> 200, duration |-> 10]}

NextConc ==
    \/ \E k \in CallbackKinds : On("request", k)
    \/ \E t \in Threads, r \in ConcPayloads : RecordRequestEnter(t, r)
    \/ \E t \in Threads : RecordTrace(t, [name |-> "a"])
    \/ \E t \in Threads : GetMetrics(t)
    \/ \E t \in Threads : GetStats(t)
    \/ \E t \in Threads : GetRequests(t, 1)
    \/ \E t \in Threads : Step(t)
    \/ \E t \in Threads : CallbackEnds(t)

SpecConc == Init /\ [][NextConc]_vars

\* SpecPersist: persistence on; one client thread beside the persist_worker
\* thread, and process restarts that load the file.
InitPersist == Constructed(TRUE)

PersistPayloads == {[status_code |-> 200, duration |-> 10]}

NextPersist ==
    \/ Tick(PersistInterval)
    \/ \E r \in PersistPayloads : RecordRequestEnter(1, r)
    \/ Clear(1)
    \/ Step(1)
    \/ PersistBegin
    \/ PersistCopyCustom
    \/ PersistCopyTraces
    \/ PersistCopyErrors
    \/ PersistCopyRequests
    \/ PersistCopyResources
    \/ PersistDump
    \/ Restart

SpecPersist == InitPersist /\ [][NextPersist]_vars

\* ---------------------------------------------------------------- claims
\* record_request calls that have entered but not yet written the counter.
PendingIncrements == Cardinality({t \in Threads : pc[t] \in {"rr_read", "rr_write"}})

\* C1: whatever the interleaving of record_request calls of several threads
\* with each other and with readers and record_trace, http_requests_total
\* counts every call that has got past its increment: with N calls returned
\* and none running, it is exactly N higher than at the start (no lost update).
C1_NoLostUpdate ==
    metrics["http_requests_total"].value = hist.expected_total - PendingIncrements

\* Both threads have returned from a record_request and the counter shows more
\* than one call.
C1_Witness ==
    /\ \A t \in Threads : pc[t] = "idle" /\ ret[t].op = "record_request"
    /\ metrics["http_requests_total"].value >= 2

Readers == {"get_metrics", "get_requests", "get_stats"}

\* C2: a get_metrics, get_requests or get_stats call never reads the store
\* while a record_request of another thread is partly applied (counter or
\* duration written, request record or per-minute point still missing).
C2_ReadersSeeWholeWrites ==
    \A t \in Threads : ret[t].op \in Readers => ~ret[t].torn

\* A thread read the summary between two record_request calls of the other
\* thread: it saw the first call whole.
C2_Witness ==
    \E t \in Threads, u \in Threads :
        /\ t # u
        /\ ret[t].op = "get_metrics"
        /\ ret[t].value.summary.requests.total = 1
        /\ ret[t].value.summary.requests.per_minute = 1
        /\ pc[u] \in {"rr_read", "emit"}
        /\ frame[u].serial > ret[t].serial
        /\ ret[u].op = "record_request"

\* C7 as claimed: while a thread is inside a subscriber callback, every other
\* thread that wants to start a Record* or Get* call can take the store's lock.
C7_SubscriberCannotStall ==
    \A t \in Threads : pc[t] = "callback" =>
        \A u \in Threads \ {t} : pc[u] = "idle" => LockFree(u)

\* The last n elements of s.
LastN(s, n) == IF Len(s) <= n THEN s ELSE SubSeq(s, Len(s) - n + 1, Len(s))

\* C3 as claimed: every series and log of the store holds at most its
\* configured capacity of entries, the named system series of metrics included.
C3_EverySeriesBounded ==
    /\ Len(traces.items) <= config.max_traces
    /\ Len(errors.items) <= config.max_errors
    /\ Len(request_metrics.items) <= config.max_metric_points
    /\ Len(resource_metrics.items) <= config.max_metric_points
    /\ \A k \in DOMAIN custom_metrics :
          Len(custom_metrics[k].values.items) <= config.max_metric_points
    /\ \A k \in SeriesNames \cap DOMAIN metrics :
          Len(metrics[k].values.items) <= config.max_metric_points

\* C4: each log (traces, errors, requests, resources, every custom series)
\* holds exactly the last min(C, n) of the n entries recorded into it since it
\* was empty, in the order they were recorded, C being its configured capacity.
C4_NewestKept ==
    /\ traces.items = LastN(hist.recorded.traces, config.max_traces)
    /\ errors.items = LastN(hist.recorded.errors, config.max_errors)
    /\ request_metrics.items = LastN(hist.recorded.requests, config.max_metric_points)
    /\ resource_metrics.items = LastN(hist.recorded.resources, config.max_metric_points)
    /\ \A k \in CustomNames :
          IF k \in DOMAIN custom_metrics
          THEN custom_metrics[k].values.items =
                   LastN(hist.recorded.custom[k], config.max_metric_points)
          ELSE hist.recorded.custom[k] = <<>>

\* More entries than the capacity were recorded into the trace log, and they
\* were not all alike: the oldest was evicted.
C4_Witness ==
    /\ Len(hist.recorded.traces) > config.max_traces
    /\ hist.recorded.traces[1] # hist.recorded.traces[Len(hist.recorded.traces)]
    /\ Len(traces.items) = config.max_traces

\* Thread t has just returned from get_metrics (in this step).
GetMetricsReturns(t) ==
    ret'[t].op = "get_metrics" /\ ret'[t].serial # ret[t].serial

\* C5 as claimed: what a caller reads through a structure get_metrics returned
\* to it never changes afterwards.
C5_SnapshotIsPointInTime ==
    [][\A t \in Threads :
          (ret[t].op = "get_metrics" /\ ret'[t].op = "get_metrics"
               /\ ret'[t].serial = ret[t].serial)
          => Observed(ret[t])' = Observed(ret[t])]_vars

\* The request-log records with timestamp > now - window, counted apart from
\* the code's list comprehension.
InWindow(window) ==
    {i \in 1..Len(request_metrics.items) :
        request_metrics.items[i].timestamp > now - window}

Errored(window) ==
    {i \in InWindow(window) : request_metrics.items[i].status_code >= 400}

\* C9: the error_rate of the summary get_metrics returns is 100 * errored / total
\* over the request-log records with timestamp > now - 300s, and 0 when there is
\* none; older records count on neither side.
C9_ErrorRateOverFiveMinutes ==
    [][\A t \in Threads : GetMetricsReturns(t) =>
          LET rate == ret'[t].value.summary.requests.error_rate
          IN  IF InWindow(300) = {}
              THEN rate.num = 0 /\ rate.den = 1
              ELSE rate.num * Cardinality(InWindow(300))
                       = 100 * Cardinality(Errored(300)) * rate.den]_vars

\* get_metrics was the last event; the log holds a record exactly 300 s old,
\* left out, and a newer errored one, counted: the rate is 100.
C9_Witness ==
    /\ ret[1].op = "get_metrics" /\ ret[1].serial = hist.ops
    /\ \E i \in 1..Len(request_metrics.items) :
          /\ request_metrics.items[i].timestamp = now - 300
          /\ request_metrics.items[i].status_code < 400
    /\ Errored(300) # {}
    /\ ret[1].value.summary.requests.error_rate = [num |-> 100, den |-> 1]

\* C10 as claimed: the per_minute of the summary get_metrics returns is the
\* number of request-log records with timestamp > now - 60s.
C10_PerMinuteOverOneMinute ==
    [][\A t \in Threads : GetMetricsReturns(t) =>
          ret'[t].value.summary.requests.per_minute = Cardinality(InWindow(60))]_vars

\* The data of the document on disk.
DocumentData ==
    [metrics |-> disk.metrics, custom_metrics |-> disk.custom_metrics,
     traces |-> disk.traces, errors |-> disk.errors,
     request_metrics |-> disk.request_metrics, resource_metrics |-> disk.resource_metrics]

\* C6 as claimed: every document the persistence worker writes is the content
\* the store had at one instant of the run of _persist_data at which no write
\* was partly applied.
C6_DocumentIsOneInstant == (disk.written /\ disk.valid) => DocumentData \in hist.persisted

Writers == {"record_request", "record_trace", "record_error", "record_resource_metrics",
            "record_custom_metric", "clear"}

\* The ids of the subscribers called for the event of operation serial, in order.
DeliveredIds(serial) ==
    LET called == SelectSeq(hist.delivered, LAMBDA d : d.serial = serial)
    IN  [i \in 1..Len(called) |-> called[i].id]

\* C8: a subscriber that raises does not make the publishing Record*/clear call
\* raise; every subscriber registered for the event kind, those after the raising
\* one included, was called once when the call returns; and emit leaves the
\* store as the write made it.
C8_SubscriberErrorIsolated ==
    /\ [](\A t \in Threads : ret[t].op \in Writers =>
            /\ ~ret[t].raised
            /\ \E i \in 1..Len(hist.listeners) :
                  /\ hist.listeners[i].serial = ret[t].serial
                  /\ DeliveredIds(ret[t].serial) =
                        [j \in 1..hist.listeners[i].n |->
                            callbacks[hist.listeners[i].event][j].id])
    /\ [][\A t \in Threads : pc[t] \in {"emit", "callback"} => store' = store]_vars

\* record_trace returned normally although the first of the two subscribers of
\* 'trace' raises: both were called, and the trace is in the log.
C8_Witness ==
    /\ pc[1] = "idle" /\ ret[1].op = "record_trace" /\ ~ret[1].raised
    /\ Len(callbacks["trace"]) = 2
    /\ callbacks["trace"][1].kind = "raises"
    /\ callbacks["trace"][2].kind = "returns"
    /\ DeliveredIds(ret[1].serial) = <<callbacks["trace"][1].id, callbacks["trace"][2].id>>
    /\ Len(traces.items) = 1

\* ------------------------------------------------- SpecPercentile and C11
\* SpecPercentile: the summary of get_metrics over every request log of up to
\* MaxSample durations, read at once and after the window has moved.
MaxSample == 5

SampleDurations == {10, 20, 30, 40, 50}

\* The metrics and the request log after record_request ran to its end for each
\* payload of payloads, in order, all at time t.
RECURSIVE AfterRequests(_, _, _, _)
AfterRequests(m, reqs, payloads, t) ==
    IF payloads = <<>> THEN [metrics |-> m, request_metrics |-> reqs]
    ELSE LET request_data == Head(payloads)
             counted == [m EXCEPT !["http_requests_total"] =
                            [value |-> @.value + 1, timestamp |-> t]]
             timed == AddTimeSeries(counted, "http_request_duration_seconds",
                                    Fraction(Get(request_data, "duration", DefaultDuration),
                                             MsPerSecond), t)
             rated == IF Get(request_data, "status_code", DefaultStatus) >= ErrorStatus
                      THEN UpdateErrorRate(timed, reqs, t)
                      ELSE timed
             logged == SeqAppend(reqs, RequestRecord(request_data, t))
         IN  AfterRequests(CalculateRequestsPerMinute(rated, logged, t), logged,
                           Tail(payloads), t)

\* A store of capacity MaxSample into which the requests of payloads were
\* recorded at time 0.
Sampled(payloads) ==
    LET after == AfterRequests(InitialMetrics(0), Deque(<<>>, MaxSample), payloads, 0)
    IN  /\ lite_obs = Initialized
        /\ config = [max_traces |-> max_traces, max_errors |-> max_errors,
                     max_metric_points |-> MaxSample, persistence |-> FALSE]
        /\ metrics = after.metrics
        /\ traces = Deque(<<>>, max_traces)
        /\ errors = Deque(<<>>, max_errors)
        /\ custom_metrics = EmptyDict
        /\ resource_metrics = Deque(<<>>, MaxSample)
        /\ request_metrics = after.request_metrics
        /\ callbacks = [e \in Events |-> <<>>]
        /\ lock = NoThread
        /\ now = 0
        /\ pc = [t \in Threads |-> "idle"]
        /\ frame = [t \in Threads |-> IdleFrame]
        /\ ret = [t \in Threads |-> NoResult]
        /\ worker = WorkerOff
        /\ disk = NoFile
        /\ hist = [NoHistory EXCEPT !.expected_total = Len(payloads),
                                    !.recorded.requests = after.request_metrics.items]

InitPercentile ==
    \E n \in 0..MaxSample : \E durations \in [1..n -> SampleDurations] :
        Sampled([i \in 1..n |-> [status_code |-> DefaultStatus, duration |-> durations[i]]])

NextPercentile ==
    \/ Tick(ErrorWindow)
    \/ GetMetrics(1)

SpecPercentile == InitPercentile /\ [][NextPercentile]_vars

\* The durations of the request-log records in the five-minute window: the
\* element at index k (from 0) of their ascending order is the value with at
\* most k durations below it and more than k not above it.
Ranked(k) ==
    CHOOSE v \in {request_metrics.items[i].duration : i \in InWindow(300)} :
        /\ Cardinality({i \in InWindow(300) : request_metrics.items[i].duration < v}) <= k
        /\ Cardinality({i \in InWindow(300) : request_metrics.items[i].duration <= v}) > k

\* min(floor(n * pct / 100), n - 1)
RankIndex(n, pct) == IF (n * pct) \div 100 > n - 1 THEN n - 1 ELSE (n * pct) \div 100

\* C11: the p50, p95 and p99 of the summary get_metrics returns are the elements
\* at index min(floor(n * p), n - 1) of the n in-window durations sorted
\* ascending, with no interpolation, and 0 when the window is empty.
C11_PercentileIsFloorRank ==
    [][\A t \in Threads : GetMetricsReturns(t) =>
          LET n == Cardinality(InWindow(300))
              latency == ret'[t].value.summary.requests.latency
          IN  IF n = 0
              THEN latency = [p50 |-> 0, p95 |-> 0, p99 |-> 0]
              ELSE latency = [p50 |-> Ranked(RankIndex(n, 50)),
                              p95 |-> Ranked(RankIndex(n, 95)),
                              p99 |-> Ranked(RankIndex(n, 99))]]_vars

\* get_metrics was the last event on a log of 10..50 recorded out of order, all
\* in the window: p50 is 30 and p99 is 50.
C11_Witness ==
    /\ ret[1].op = "get_metrics" /\ ret[1].serial = hist.ops
    /\ Len(request_metrics.items) = 5
    /\ {request_metrics.items[i].duration : i \in InWindow(300)} = SampleDurations
    /\ request_metrics.items[1].duration = 50
    /\ ret[1].value.summary.requests.latency.p50 = 30
    /\ ret[1].value.summary.requests.latency.p99 = 50

\* ---------------------------------------------------------------- C12
\* C12 as claimed: a record_request whose payload has no duration field adds no
\* point to http_request_duration_seconds.
C12_AbsentDurationNotContributed ==
    [][\A t \in Threads :
          (pc[t] = "rr_duration" /\ pc'[t] # "rr_duration"
               /\ "duration" \notin DOMAIN frame[t].arg)
          => metrics'["http_request_duration_seconds"]
                 = metrics["http_request_duration_seconds"]]_vars

\* -------------------------------------------------- SpecMalformed and C13
\* SpecMalformed: one client thread whose record_request payloads have a null
\* status_code or a null duration, beside a whole one, and get_metrics.
MalformedPayloads ==
    {[status_code |-> None, duration |-> 10],
     [status_code |-> 500, duration |-> None],
     [status_code |-> 400, duration |-> 10]}

NextMalformed ==
    \/ \E r \in MalformedPayloads : RecordRequestEnter(1, r)
    \/ Step(1)
    \/ GetMetrics(1)
    \/ Tick(RpmWindow)

SpecMalformed == Init /\ [][NextMalformed]_vars

\* The Record* operations.
Recorders == {"record_request", "record_trace", "record_error", "record_resource_metrics",
              "record_custom_metric"}

\* C13 as claimed: no Record* operation raises because of its payload, whatever
\* optional field of it is missing or null.
C13_RecordNeverRaises ==
    \A t \in Threads : ret[t].op \in Recorders => ~ret[t].raised

\* ------------------------------------------------------ SpecQuery and C14
\* SpecQuery: one client thread that fills the three logs and reads them back
\* with every limit of QueryLimits.
QueryLimits == {0, 1, 2, 3}

NextQuery ==
    \/ \E r \in TracePayloads : RecordTrace(1, r)
    \/ \E r \in ErrorPayloads : RecordError(1, r)
    \/ \E r \in RequestPayloads : RecordRequestEnter(1, r)
    \/ Step(1)
    \/ \E limit \in QueryLimits : GetTraces(1, limit)
    \/ \E limit \in QueryLimits : GetErrors(1, limit)
    \/ \E limit \in QueryLimits : GetRequests(1, limit)

SpecQuery == Init /\ [][NextQuery]_vars

\* entries are the min(limit, count) last elements of log, the last one first.
NewestFirst(entries, log, limit) ==
    /\ Len(entries) = (IF limit < Len(log) THEN limit ELSE Len(log))
    /\ \A i \in 1..Len(entries) : entries[i] = log[Len(log) + 1 - i]

\* C14 as claimed: for every limit >= 0, get_traces(limit), get_errors(limit) and
\* get_requests(limit) return exactly min(limit, count) entries, the most
\* recently recorded ones, newest first.
C14_LimitIsHonoured ==
    [][\A t \in Threads, limit \in QueryLimits :
          /\ GetTraces(t, limit) => NewestFirst(ret'[t].value.entries, traces.items, limit)
          /\ GetErrors(t, limit) => NewestFirst(ret'[t].value.entries, errors.items, limit)
          /\ GetRequests(t, limit)
                 => NewestFirst(ret'[t].value.entries, request_metrics.items, limit)]_vars

\* ----------------------------------------------------- SpecCustom and C15
\* SpecCustom: one client thread that writes custom metrics whose attribute
\* maps overlap, clears the store and reads it.
AttributeCalls ==
    {[name |-> "x", value |-> 1, attributes |-> [a |-> 1]],
     [name |-> "x", value |-> 2, attributes |-> [b |-> 2]],
     [name |-> "x", value |-> 3, attributes |-> [a |-> 3]],
     [name |-> "x", value |-> 4, attributes |-> EmptyDict],
     [name |-> "y", value |-> 5, attributes |-> [a |-> 4, b |-> 5]]}

NextCustom ==
    \/ \E c \in AttributeCalls : RecordCustomMetric(1, c.name, c.value, c.attributes)
    \/ EmitNext(1)
    \/ Clear(1)
    \/ GetMetrics(1)

SpecCustom == Init /\ [][NextCustom]_vars

\* The per-key last-write-wins union of the maps of writes: a key has the value
\* of the last write that holds it.
LastWriteWins(writes) ==
    [k \in UNION {DOMAIN writes[i] : i \in 1..Len(writes)} |->
        LET last == CHOOSE i \in 1..Len(writes) :
                        /\ k \in DOMAIN writes[i]
                        /\ \A j \in (i + 1)..Len(writes) : k \notin DOMAIN writes[j]
        IN  writes[last][k]]

\* C15: the attribute map of every custom metric is the per-key last-write-wins
\* union of the attribute maps of all record_custom_metric calls on its name
\* since the last clear; no write resets it.
C15_AttributesAccumulate ==
    \A name \in CustomNames :
        IF name \in DOMAIN custom_metrics
        THEN custom_metrics[name].attributes = LastWriteWins(hist.written[name])
        ELSE hist.written[name] = <<>>

\* x was written with {a: 1}, then {b: 2}, then {a: 3}: it holds {a: 3, b: 2}.
C15_Witness ==
    /\ hist.written["x"] = <<[a |-> 1], [b |-> 2], [a |-> 3]>>
    /\ custom_metrics["x"].attributes = [a |-> 3, b |-> 2]

\* ---------------------------------------------------------------- C16
\* A metrics dict without the timestamp of each metric.
Untimed(m) == [k \in DOMAIN m |-> [f \in DOMAIN m[k] \ {"timestamp"} |-> m[k][f]]]

\* What get_metrics and get_stats return now, timestamps aside.
View ==
    LET result == Observed([value |-> MetricsResult])
    IN  [system |-> Untimed(result.system), custom |-> result.custom,
         summary |-> result.summary, stats |-> Stats]

\* The view of a store that was just constructed.
FreshView ==
    [system |-> [k \in {"http_requests_total", "active_requests"} |-> [value |-> 0]]
                @@ [k \in {"http_error_rate"} |-> [value |-> Zero]]
                @@ [k \in SeriesNames |-> [values |-> List(<<>>)]],
     custom |-> EmptyDict,
     summary |-> [requests |-> [total |-> 0, per_minute |-> 0, error_rate |-> Zero,
                                latency |-> [p50 |-> 0, p95 |-> 0, p99 |-> 0]],
                  resources |-> EmptyDict, errors |-> 0, traces |-> 0],
     stats |-> [metrics |-> 10, custom_metrics |-> 0, traces |-> 0, errors |-> 0,
                requests |-> 0, resource_metrics |-> 0]]

\* C16: a freshly constructed store has the view FreshView, and after any
\* sequence of Record* calls clear() brings the store back to it: get_metrics
\* (timestamps aside) and get_stats return what they return on a fresh store.
C16_ClearGivesFreshView ==
    /\ View = FreshView
    /\ [][\A t \in Threads : Clear(t) => View' = FreshView]_vars

\* clear has just emptied a store of which get_metrics had shown a request, and
\* the clock has moved since the store was constructed.
C16_Witness ==
    /\ frame[1].op = "clear" /\ pc[1] = "emit"
    /\ ret[1].op = "get_metrics"
    /\ ret[1].value.summary.requests.total >= 1
    /\ now > 0
    /\ View = FreshView

\* ------------------------------------------------- SpecRoundTrip and C17
\* What _persist_data copies when it runs with no other thread in the store.
Snapshot ==
    [metrics |-> Live, custom_metrics |-> CustomCopy, traces |-> traces.items,
     errors |-> errors.items, request_metrics |-> request_metrics.items,
     resource_metrics |-> resource_metrics.items]

\* DataStore.shutdown by thread t, while no other thread is inside the store and
\* the worker sleeps: if self.config.get('persistence'): self._persist_data()
Shutdown(t) ==
    /\ CanStart(t)
    /\ \A u \in Threads : pc[u] = "idle"
    /\ worker.pc \in {"sleep", "off"}
    /\ disk' = IF ~config.persistence THEN disk
               ELSE IF Serializable(metrics) THEN Document(Snapshot, now)
               ELSE BrokenFile
    /\ ret' = [ret EXCEPT ![t] =
                  [op |-> "shutdown", serial |-> hist.ops + 1, raised |-> FALSE,
                   torn |-> FALSE, value |-> ReturnsNone]]
    /\ hist' = [hist EXCEPT !.ops = @ + 1]
    /\ UNCHANGED <<lite_obs, config, metrics, traces, errors, custom_metrics, resource_metrics,
                   request_metrics, callbacks, lock, now, pc, frame, worker>>

\* The configuration with every capacity lowered by k, down to 1.
Lowered(n, k) == IF n - k < 1 THEN 1 ELSE n - k

Capacities(k) ==
    [max_traces |-> Lowered(max_traces, k), max_errors |-> Lowered(max_errors, k),
     max_metric_points |-> Lowered(max_metric_points, k), persistence |-> TRUE]

RestartConfigs == {Capacities(0), Capacities(1)}

RoundTripPayloads == {[status_code |-> 200, duration |-> 10], [status_code |-> 500, duration |-> 20]}

\* SpecRoundTrip: persistence on; one client thread fills the store and saves it
\* with shutdown, and the process starts again with the same or lower capacities.
NextRoundTrip ==
    \/ Tick(PersistInterval)
    \/ \E r \in RoundTripPayloads : RecordRequestEnter(1, r)
    \/ Step(1)
    \/ \E r \in TracePayloads : RecordTrace(1, r)
    \/ RecordError(1, [message |-> "e"])
    \/ RecordResourceMetrics(1, [cpu |-> 5, memory |-> [rss |-> 100, percent |-> 7]])
    \/ \E c \in CustomCalls : RecordCustomMetric(1, c.name, c.value, c.attributes)
    \/ Shutdown(1)
    \/ \E c \in RestartConfigs : RestartWith(c)

SpecRoundTrip == InitPersist /\ [][NextRoundTrip]_vars

\* The capacities of two configurations are the same.
SameCapacities(c, d) ==
    /\ c.max_traces = d.max_traces
    /\ c.max_errors = d.max_errors
    /\ c.max_metric_points = d.max_metric_points

FoundFiles == {NoFile, BrokenFile, MalformedFile}

InitFound == \E file \in FoundFiles : Built(TRUE, file)

\* SpecFound: persistence on; the process starts beside a file it did not write,
\* records, reads, saves on the worker and at shutdown.
NextFound ==
    \/ Tick(PersistInterval)
    \/ RestartWith(Capacities(0))
    \/ \E r \in PersistPayloads : RecordRequestEnter(1, r)
    \/ Step(1)
    \/ \E r \in TracePayloads : RecordTrace(1, r)
    \/ GetMetrics(1)
    \/ \E limit \in {1} : GetTraces(1, limit)
    \/ Shutdown(1)
    \/ PersistBegin
    \/ PersistCopyCustom
    \/ PersistCopyTraces
    \/ PersistCopyErrors
    \/ PersistCopyRequests
    \/ PersistCopyResources
    \/ PersistDump

SpecFound == InitFound /\ [][NextFound]_vars

\* C18: a failed save or load of the snapshot stays inside the store: whatever
\* file the process found and whatever the worker and shutdown() wrote, every
\* Record*, Get* and shutdown() call of well-formed input returns normally.
C18_PersistenceFailureStaysInside ==
    \A t \in Threads : ~ret[t].raised


\* ------------------------------------------- LiteObservability (C19, C20)
NotInitializedError == [error |-> "RuntimeError: [LiteObs] Not initialized"]

\* LiteObservability.init(**options) of a process that has built no store yet,
\* or is initialized already. started: the components after the store (tracing,
\* trackers, dashboard) all start; if one raises, init raises with the store set
\* and is_initialized still False.
ObsInit(options, started) ==
    /\ lite_obs.is_initialized \/ ~lite_obs.data_store
    /\ IF lite_obs.is_initialized
       THEN /\ hist.ops < MaxOps
            /\ \A t \in Threads : pc[t] = "idle"
            /\ hist' = [hist EXCEPT !.ops = @ + 1]
            /\ UNCHANGED <<lite_obs, config, metrics, traces, errors, custom_metrics,
                           resource_metrics, request_metrics, callbacks, lock, now, pc,
                           frame, ret, worker, disk>>
       ELSE /\ Construct(options)
            /\ lite_obs' = [is_initialized |-> started, data_store |-> TRUE]

\* if not self.data_store: raise RuntimeError("[LiteObs] Not initialized")
RaiseNotInitialized(t, op) ==
    /\ CanStart(t)
    /\ ret' = [ret EXCEPT ![t] =
                  [op |-> op, serial |-> hist.ops + 1, raised |-> TRUE,
                   torn |-> FALSE, value |-> NotInitializedError]]
    /\ hist' = [hist EXCEPT !.ops = @ + 1]
    /\ UNCHANGED <<lite_obs, config, metrics, traces, errors, custom_metrics,
                   resource_metrics, request_metrics, callbacks, lock, now, pc, frame,
                   worker, disk>>

\* LiteObservability.get_metrics
ObsGetMetrics(t) ==
    IF lite_obs.data_store THEN GetMetrics(t) ELSE RaiseNotInitialized(t, "get_metrics")

\* LiteObservability.get_traces
ObsGetTraces(t, limit) ==
    IF lite_obs.data_store THEN GetTraces(t, limit) ELSE RaiseNotInitialized(t, "get_traces")

\* LiteObservability.get_errors
ObsGetErrors(t, limit) ==
    IF lite_obs.data_store THEN GetErrors(t, limit) ELSE RaiseNotInitialized(t, "get_errors")

\* LiteObservability.record_metric
ObsRecordMetric(t, name, value, attributes) ==
    IF lite_obs.data_store
    THEN RecordCustomMetric(t, name, value, attributes)
    ELSE RaiseNotInitialized(t, "record_metric")

\* LiteObservability.shutdown, called between operations. stopped: every
\* component stops; if one raises, the error is logged and is_initialized stays.
ObsShutdown(t, stopped) ==
    /\ CanStart(t)
    /\ \A u \in Threads : pc[u] = "idle"
    /\ lite_obs' = IF lite_obs.is_initialized /\ stopped
                   THEN [lite_obs EXCEPT !.is_initialized = FALSE]
                   ELSE lite_obs
    /\ ret' = [ret EXCEPT ![t] =
                  [op |-> "obs_shutdown", serial |-> hist.ops + 1, raised |-> FALSE,
                   torn |-> FALSE, value |-> ReturnsNone]]
    /\ hist' = [hist EXCEPT !.ops = @ + 1,
                            !.shut = @ \/ (lite_obs.is_initialized /\ stopped)]
    /\ UNCHANGED <<config, metrics, traces, errors, custom_metrics, resource_metrics,
                   request_metrics, callbacks, lock, now, pc, frame, worker, disk>>

\* Before init() there is no store: the store variables hold what DataStore
\* would build, and no worker runs.
InitObs == lite_obs = NotInitialized /\ StoreBuilt(FALSE, NoFile)

ObsMetricCalls == {<<"x", 1, [a |-> 1]>>, <<"y", 2, EmptyDict>>}

\* SpecObs: a process that calls init, the query and record functions and
\* shutdown of LiteObservability in any order, with persistence on.
NextObs ==
    \/ Tick(PersistInterval)
    \/ \E started \in BOOLEAN : ObsInit(Capacities(0), started)
    \/ ObsGetMetrics(1)
    \/ \E limit \in {1} : ObsGetTraces(1, limit)
    \/ \E limit \in {1} : ObsGetErrors(1, limit)
    \/ \E c \in ObsMetricCalls : ObsRecordMetric(1, c[1], c[2], c[3])
    \/ EmitNext(1)
    \/ \E stopped \in BOOLEAN : ObsShutdown(1, stopped)
    \/ PersistBegin
    \/ PersistCopyCustom
    \/ PersistCopyTraces
    \/ PersistCopyErrors
    \/ PersistCopyRequests
    \/ PersistCopyResources
    \/ PersistDump

SpecObs == InitObs /\ [][NextObs]_vars

\* C19: with persistence on, a shutdown of an initialized LiteObservability
\* leaves on disk the document of the store as it is at that moment (one final
\* _persist_data run, made before shutdown returns).
C19_ShutdownFlushes ==
    [][\A t \in Threads : \A stopped \in BOOLEAN :
          (ObsShutdown(t, stopped) /\ lite_obs.is_initialized /\ config.persistence)
              => disk' = IF Serializable(metrics) THEN Document(Snapshot, now)
                         ELSE BrokenFile]_vars

\* A call of get_metrics, get_traces, get_errors or record_metric by thread t.
ObsCall(t) ==
    \/ ObsGetMetrics(t)
    \/ \E limit \in {1} : ObsGetTraces(t, limit) \/ ObsGetErrors(t, limit)
    \/ \E c \in ObsMetricCalls : ObsRecordMetric(t, c[1], c[2], c[3])

\* C20: get_metrics, get_traces, get_errors and record_metric called before
\* init() has built the store, or after shutdown() has torn the system down,
\* raise the not-initialized error and leave the store as it was.
C20_RaisesUnlessInitialized ==
    [][\A t \in Threads :
          (ObsCall(t) /\ (~lite_obs.data_store \/ hist.shut))
              => /\ ret'[t].raised
                 /\ ret'[t].value = NotInitializedError
                 /\ UNCHANGED store]_vars


\* C21: once shutdown() has torn the system down, the persist worker begins no
\* further periodic _persist_data run (it sees the stop signal and ends).
C21_WorkerStopsAfterShutdown ==
    [][hist.shut => ~PersistBegin]_vars


\* ----------------------------------------------- ConfigManager (C22, C23)
\* a <= b for floats kept as fractions with positive denominators
Leq(a, b) == a.num * b.den <= b.num * a.den

\* default_config with no LITEOBS_* variable set (the options the model reads)
DefaultConfig ==
    [dashboard_port |-> 8001, sample_rate |-> [num |-> 1, den |-> 1],
     metrics_interval |-> 5000, resource_interval |-> 5000,
     max_traces |-> 1000, max_errors |-> 500, max_metric_points |-> 1440,
     persistence |-> FALSE, prometheus_port |-> 9090,
     cpu_threshold |-> [num |-> 80, den |-> 1]]

\* _validate_config without the check of prometheus_port
ValidateConfigOnePort(c) ==
    IF ~(1 <= c.dashboard_port /\ c.dashboard_port <= 65535) THEN "Invalid dashboard port"
    ELSE IF ~(Leq(Zero, c.sample_rate) /\ Leq(c.sample_rate, [num |-> 1, den |-> 1]))
    THEN "Invalid sample rate"
    ELSE IF c.metrics_interval < 1000 THEN "Metrics interval too low"
    ELSE IF c.resource_interval < 1000 THEN "Resource interval too low"
    ELSE IF c.max_traces < 1 THEN "Invalid max_traces"
    ELSE IF c.max_errors < 1 THEN "Invalid max_errors"
    ELSE IF ~(Leq(Zero, c.cpu_threshold) /\ Leq(c.cpu_threshold, [num |-> 100, den |-> 1]))
    THEN "Invalid CPU threshold"
    ELSE "valid"

\* _validate_config: the ValueError it raises, or "valid"
ValidateConfig(c) ==
    IF ~(1 <= c.dashboard_port /\ c.dashboard_port <= 65535) THEN "Invalid dashboard port"
    ELSE IF ~(1 <= c.prometheus_port /\ c.prometheus_port <= 65535)
    THEN "Invalid Prometheus port"
    ELSE IF ~(Leq(Zero, c.sample_rate) /\ Leq(c.sample_rate, [num |-> 1, den |-> 1]))
    THEN "Invalid sample rate"
    ELSE IF c.metrics_interval < 1000 THEN "Metrics interval too low"
    ELSE IF c.resource_interval < 1000 THEN "Resource interval too low"
    ELSE IF c.max_traces < 1 THEN "Invalid max_traces"
    ELSE IF c.max_errors < 1 THEN "Invalid max_errors"
    ELSE IF ~(Leq(Zero, c.cpu_threshold) /\ Leq(c.cpu_threshold, [num |-> 100, den |-> 1]))
    THEN "Invalid CPU threshold"
    ELSE "valid"

\* merged_config = {**default_config, **options}
BuildConfig(options) == Update(DefaultConfig, options)

\* ConfigManager(options) by thread t: the new object replaces the process's
\* configuration, unless _validate_config raises.
ConfigManagerInit(t, options) ==
    /\ CanStart(t)
    /\ LET merged == BuildConfig(options)
           error == ValidateConfig(merged)
       IN  /\ config' = IF error = "valid" THEN merged ELSE config
           /\ ret' = [ret EXCEPT ![t] =
                         [op |-> "ConfigManager", serial |-> hist.ops + 1,
                          raised |-> error # "valid", torn |-> FALSE,
                          value |-> [error |-> error, options |-> options]]]
    /\ hist' = [hist EXCEPT !.ops = @ + 1]
    /\ UNCHANGED <<lite_obs, metrics, traces, errors, custom_metrics, resource_metrics,
                   request_metrics, callbacks, lock, now, pc, frame, worker, disk>>

\* ConfigManager.set: self.config[key] = value
ConfigSet(t, key, value) ==
    /\ CanStart(t)
    /\ config' = Update(config, key :> value)
    /\ ret' = [ret EXCEPT ![t] =
                  [op |-> "set", serial |-> hist.ops + 1, raised |-> FALSE,
                   torn |-> FALSE, value |-> ReturnsNone]]
    /\ hist' = [hist EXCEPT !.ops = @ + 1]
    /\ UNCHANGED <<lite_obs, metrics, traces, errors, custom_metrics, resource_metrics,
                   request_metrics, callbacks, lock, now, pc, frame, worker, disk>>

\* ConfigManager.get_all: self.config.copy()
ConfigGetAll(t) == Read(t, "get_all", config)

\* The values tried for each option: the ends of its range and their neighbours.
OptionValues ==
    [dashboard_port |-> {0, 1, 65535, 65536},
     prometheus_port |-> {0, 1, 65535, 65536},
     sample_rate |-> {[num |-> -1, den |-> 10], Zero, [num |-> 1, den |-> 1],
                      [num |-> 11, den |-> 10]},
     metrics_interval |-> {999, 1000},
     resource_interval |-> {999, 1000},
     max_traces |-> {0, 1},
     max_errors |-> {0, 1},
     cpu_threshold |-> {[num |-> -1, den |-> 10], Zero, [num |-> 100, den |-> 1],
                        [num |-> 1001, den |-> 10]}]

\* The options of a call: none, or one option given.
ConfigOptions ==
    {EmptyDict} \cup UNION {{k :> v : v \in OptionValues[k]} : k \in DOMAIN OptionValues}

\* A process whose ConfigManager was built from the defaults.
InitConfig ==
    /\ lite_obs = NotInitialized
    /\ config = DefaultConfig
    /\ metrics = InitialMetrics(0)
    /\ traces = Deque(<<>>, DefaultConfig.max_traces)
    /\ errors = Deque(<<>>, DefaultConfig.max_errors)
    /\ custom_metrics = EmptyDict
    /\ resource_metrics = Deque(<<>>, DefaultConfig.max_metric_points)
    /\ request_metrics = Deque(<<>>, DefaultConfig.max_metric_points)
    /\ callbacks = [e \in Events |-> <<>>]
    /\ lock = NoThread
    /\ now = 0
    /\ pc = [t \in Threads |-> "idle"]
    /\ frame = [t \in Threads |-> IdleFrame]
    /\ ret = [t \in Threads |-> NoResult]
    /\ worker = WorkerOff
    /\ disk = NoFile
    /\ hist = NoHistory

\* SpecConfig: configuration objects are built, changed and read.
NextConfig ==
    \/ \E o \in ConfigOptions : ConfigManagerInit(1, o)
    \/ \E k \in DOMAIN OptionValues : \E v \in OptionValues[k] : ConfigSet(1, k, v)
    \/ ConfigGetAll(1)

SpecConfig == InitConfig /\ [][NextConfig]_vars

\* The merged configuration c breaks a range rule.
OutOfRange(c) ==
    \/ c.dashboard_port < 1 \/ c.dashboard_port > 65535
    \/ c.prometheus_port < 1 \/ c.prometheus_port > 65535
    \/ c.sample_rate.num < 0 \/ c.sample_rate.num > c.sample_rate.den
    \/ c.metrics_interval < 1000 \/ c.resource_interval < 1000
    \/ c.max_traces < 1 \/ c.max_errors < 1
    \/ c.cpu_threshold.num < 0 \/ c.cpu_threshold.num > 100 * c.cpu_threshold.den

\* C22: ConfigManager(options) raises, and no configuration object comes back,
\* exactly when the merged configuration has a port outside [1,65535], a
\* sample rate outside [0,1], an interval below 1000, max_traces or max_errors
\* below 1, or a CPU threshold outside [0,100]; otherwise the object holds the
\* merged configuration.
C22_RaisesExactlyWhenOutOfRange ==
    [][(ret'[1].op = "ConfigManager" /\ ret'[1].serial # ret[1].serial)
          => LET merged == Update(DefaultConfig, ret'[1].value.options)
             IN  /\ ret'[1].raised <=> OutOfRange(merged)
                 /\ ret'[1].raised => config' = config
                 /\ ~ret'[1].raised => config' = merged]_vars

\* A construction was refused for its Prometheus port alone.
C22_Witness ==
    /\ ret[1].op = "ConfigManager"
    /\ ret[1].raised
    /\ ret[1].value.error = "Invalid Prometheus port"

\* C23: the configuration object never changes after construction, so each
\* option keeps satisfying the range rules it was validated against.
C23_ConfigStaysValid == ~OutOfRange(config)


\* ------------------------------------------ ingestion (C24, C27, C28)
\* Payloads with and without a 'timestamp' of their own, older than the clock
\* after its first tick, and resource payloads with sub-fields left out.
IngestErrors == {[message |-> "e"], [message |-> "f", timestamp |-> 30]}

IngestResources ==
    {[cpu |-> 5, memory |-> [rss |-> 100, percent |-> 7],
      system |-> [load_average |-> <<1, 2>>, memory |-> [percent |-> 9]]],
     [memory |-> [rss |-> 200], system |-> [load_average |-> <<>>, memory |-> [total |-> 1]]],
     [cpu |-> 6, timestamp |-> 30]}

\* SpecIngest: one client thread records traces, errors, resource snapshots,
\* requests and custom metrics while the clock advances; persistence off.
NextIngest ==
    \/ Tick(RpmWindow)
    \/ \E r \in TracePayloads : RecordTrace(1, r)
    \/ \E r \in IngestErrors : RecordError(1, r)
    \/ \E r \in IngestResources : RecordResourceMetrics(1, r)
    \/ \E r \in PersistPayloads : RecordRequestEnter(1, r)
    \/ \E c \in AttributeCalls : RecordCustomMetric(1, c.name, c.value, c.attributes)
    \/ Step(1)

SpecIngest == Init /\ [][NextIngest]_vars

NonDecreasing(items) ==
    \A i \in 1..(Len(items) - 1) : items[i].timestamp <= items[i + 1].timestamp

\* C24: with a clock that never goes back, the timestamps of every log and of
\* every system and custom series are non-decreasing in insertion order,
\* whatever the payloads carry.
C24_TimestampsNonDecreasing ==
    /\ NonDecreasing(traces.items)
    /\ NonDecreasing(errors.items)
    /\ NonDecreasing(request_metrics.items)
    /\ NonDecreasing(resource_metrics.items)
    /\ \A k \in DOMAIN metrics :
           "values" \in DOMAIN metrics[k] => NonDecreasing(metrics[k].values.items)
    /\ \A k \in DOMAIN custom_metrics : NonDecreasing(custom_metrics[k].values.items)


\* Thread t enters operation op in this step.
Begins(t, op) == pc[t] = "idle" /\ pc'[t] # "idle" /\ frame'[t].op = op

\* The sub-field of the payload that feeds system series k is present.
Present(resource_data, k) ==
    CASE k = "process_cpu_percent" -> "cpu" \in DOMAIN resource_data
      [] k = "process_memory_bytes" ->
             "memory" \in DOMAIN resource_data /\ "rss" \in DOMAIN resource_data.memory
      [] k = "process_memory_percent" ->
             "memory" \in DOMAIN resource_data /\ "percent" \in DOMAIN resource_data.memory
      [] k = "system_load_average" ->
             /\ "system" \in DOMAIN resource_data
             /\ "load_average" \in DOMAIN resource_data.system
             /\ resource_data.system.load_average # <<>>
      [] k = "system_memory_usage" ->
             /\ "system" \in DOMAIN resource_data
             /\ "memory" \in DOMAIN resource_data.system
             /\ "percent" \in DOMAIN resource_data.system.memory

ResourceSeries ==
    {"process_cpu_percent", "process_memory_bytes", "process_memory_percent",
     "system_load_average", "system_memory_usage"}

\* C27: record_resource_metrics leaves the system series of every sub-field
\* that the payload lacks as it was (no default point), and still appends the
\* snapshot to the resource log.
C27_MissingSubFieldSkipped ==
    [][\A t \in Threads :
          Begins(t, "record_resource_metrics")
              => /\ \A k \in ResourceSeries :
                        ~Present(frame'[t].arg, k) => metrics'[k] = metrics[k]
                 /\ Len(hist'.recorded.resources) = Len(hist.recorded.resources) + 1]_vars

\* C28: the record that record_trace or record_error stores has the ingestion
\* time as its timestamp, also when the payload has a 'timestamp' of its own,
\* and every other attribute of the payload unchanged.
C28_IngestionTimeStamped ==
    [][\A t \in Threads :
          (Begins(t, "record_trace") \/ Begins(t, "record_error"))
              => LET data == frame'[t].arg
                     log == IF frame'[t].op = "record_trace" THEN traces' ELSE errors'
                     stored == log.items[Len(log.items)]
                 IN  /\ stored.timestamp = now
                     /\ DOMAIN stored = DOMAIN data \cup {"timestamp"}
                     /\ \A k \in DOMAIN data \ {"timestamp"} : stored[k] = data[k]]_vars

\* A trace whose payload had timestamp 999 is in the log under another time.
C28_Witness ==
    \E i \in 1..Len(traces.items) :
        traces.items[i].name = "b" /\ traces.items[i].timestamp # 999


\* ------------------------------------------------------ publishing (C25)
\* The writes of one behaviour of SpecPublish.
MaxWrites == 2

\* SpecPublish: subscribers of every kind of event register, then one client
\* thread makes every kind of write.
NextPublish ==
    \/ hist.ops = 0 /\ \E e \in Events : On(e, "returns")
    \/ hist.ops < MaxWrites /\ RecordRequestEnter(1, [status_code |-> 200, duration |-> 10])
    \/ hist.ops < MaxWrites /\ RecordTrace(1, [name |-> "a"])
    \/ hist.ops < MaxWrites /\ RecordError(1, [message |-> "e"])
    \/ hist.ops < MaxWrites /\ RecordResourceMetrics(1, [cpu |-> 5])
    \/ hist.ops < MaxWrites /\ RecordCustomMetric(1, "x", 1, EmptyDict)
    \/ hist.ops < MaxWrites /\ Clear(1)
    \/ Step(1)
    \/ CallbackEnds(1)

SpecPublish == Init /\ [][NextPublish]_vars

\* The kind of event each writer is to publish.
EventOf ==
    [record_request |-> "request", record_trace |-> "trace", record_error |-> "error",
     record_resource_metrics |-> "resource", record_custom_metric |-> "customMetric",
     clear |-> "clear"]

\* The subscriber calls made for the operation numbered serial, in order.
Called(serial) == SelectSeq(hist.delivered, LAMBDA d : d.serial = serial)

\* The publications made by the operation numbered serial.
Published(serial) == SelectSeq(hist.listeners, LAMBDA p : p.serial = serial)

\* C25: a Record* or clear call that has returned published one event, of its
\* own kind; the subscribers registered for that kind were each called once
\* with it, in the order of their registration, and no other subscriber was.
C25_OneEventToItsSubscribers ==
    \A t \in Threads :
        (ret[t].op \in Writers /\ ~ret[t].raised) =>
            LET kind == EventOf[ret[t].op]
                published == Published(ret[t].serial)
                called == Called(ret[t].serial)
            IN  /\ Len(published) = 1
                /\ published[1].event = kind
                /\ Len(called) = published[1].n
                /\ \A i \in 1..Len(called) :
                       /\ called[i].event = kind
                       /\ called[i].id = callbacks[kind][i].id
                /\ \A i, j \in 1..Len(called) : i < j => called[i].id < called[j].id

\* record_error has returned with two subscribers of 'error', both called in
\* the order they registered.
C25_Witness ==
    /\ pc[1] = "idle" /\ ret[1].op = "record_error"
    /\ Len(callbacks["error"]) = 2
    /\ Len(Called(ret[1].serial)) = 2


\* ------------------------------------- record_request (C26, C29, C30)
\* Thread t returns from record_request in this step.
RecordRequestReturns(t) ==
    /\ pc[t] = "emit" /\ pc'[t] = "idle"
    /\ frame[t].op = "record_request"
    /\ ~ret'[t].raised

\* C26: when record_request returns, whatever the status code of its request,
\* the stored http_error_rate is 100 * errored / total over the request-log
\* records with timestamp > now - 300s, the new record among them, and 0 when
\* there is none.
C26_ErrorRateRecomputedByEveryRequest ==
    [][\A t \in Threads : RecordRequestReturns(t) =>
          LET rate == metrics'["http_error_rate"].value
          IN  IF InWindow(300) = {}
              THEN rate.num = 0
              ELSE rate.num * Cardinality(InWindow(300))
                       = 100 * Cardinality(Errored(300)) * rate.den]_vars

\* SpecRate: one client thread records requests of every status; the clock
\* advances between its calls, by one window of requests-per-minute at a time.
NextRate ==
    \/ (\A t \in Threads : pc[t] = "idle") /\ Tick(RpmWindow)
    \/ \E r \in RequestPayloads : RecordRequestEnter(1, r)
    \/ Step(1)

SpecRate == Init /\ [][NextRate]_vars

C30_LogAgreesWithCounter ==
    (\A t \in Threads : pc[t] = "idle") =>
        Len(request_metrics.items) =
            IF metrics["http_requests_total"].value < config.max_metric_points
            THEN metrics["http_requests_total"].value
            ELSE config.max_metric_points


\* The file on disk is JSON whose load raises part of the way.
LoadFails == disk.written /\ disk.valid /\ ~Get(disk, "traces_is_list", TRUE)

\* C31: a load that fails at any step leaves the store as the constructor made
\* it: the initial metrics, no custom metric and four empty logs, nothing of
\* the document applied.
C31_FailedLoadLeavesStoreEmpty ==
    [][(RestartWith(Capacities(0)) /\ LoadFails)
          => /\ metrics' = InitialMetrics(now)
             /\ custom_metrics' = EmptyDict
             /\ traces'.items = <<>> /\ errors'.items = <<>>
             /\ request_metrics'.items = <<>> /\ resource_metrics'.items = <<>>]_vars


\* ------------------------------------------------- event order (C32)
\* SpecOrder: two client threads record traces at the same time, each trace
\* labelled by its caller with the number of the call, while subscribers of
\* 'trace' register.
NextOrder ==
    \/ On("trace", "returns")
    \/ \E t \in Threads : RecordTrace(t, [name |-> "a", seq |-> hist.ops + 1])
    \/ \E t \in Threads : EmitNext(t)
    \/ \E t \in Threads : CallbackEnds(t)

SpecOrder == Init /\ [][NextOrder]_vars

\* The places in hist.delivered where subscriber id was called with the event
\* of the write numbered serial.
CalledAt(serial, id) ==
    {k \in 1..Len(hist.delivered) :
        hist.delivered[k].serial = serial /\ hist.delivered[k].id = id}

\* C32: subscribers see the events of concurrent writes in the order of the
\* records in the log: a subscriber is never called with the event of an
\* earlier record after that of a later one, and when a subscriber is called
\* with an event, no other thread has a write applied whose event is still
\* being handled or still to be handed out.
C32_EventsInWriteOrder ==
    /\ [](\A i, j \in 1..Len(traces.items) : \A id \in 1..MaxCallbacks :
              i < j => \A a \in CalledAt(traces.items[i].seq, id) :
                           \A b \in CalledAt(traces.items[j].seq, id) : a < b)
    /\ [][\A t \in Threads :
              (pc[t] = "emit" /\ pc'[t] = "callback")
                  => \A u \in Threads \ {t} : pc[u] \notin {"emit", "callback"}]_vars

\* The log holds a trace of each thread, and one subscriber has been called
\* with both events.
C32_Witness ==
    /\ ret[1].op = "record_trace" /\ ret[2].op = "record_trace"
    /\ Len(traces.items) = 2
    /\ \E id \in 1..MaxCallbacks :
           /\ CalledAt(traces.items[1].seq, id) # {}
           /\ CalledAt(traces.items[2].seq, id) # {}


\* ------------------------------------------ accepted capacities (C33)
\* The capacities a caller may ask for: the smallest that _validate_config
\* lets through, and one below.
CapacityOptions ==
    {EmptyDict} \cup {k :> v : k \in {"max_traces", "max_errors", "max_metric_points"},
                               v \in {0, 1}}

\* SpecAccepted: a process builds its ConfigManager, then its DataStore from the
\* configuration that was accepted, then records and reads back.
NextAccepted ==
    \/ ~lite_obs.data_store /\ \E o \in CapacityOptions : ConfigManagerInit(1, o)
    \/ ~lite_obs.data_store /\ Restart
    \/ lite_obs.data_store /\ RecordRequestEnter(1, [status_code |-> 200, duration |-> 10])
    \/ lite_obs.data_store /\ RecordTrace(1, [name |-> "a"])
    \/ lite_obs.data_store /\ RecordCustomMetric(1, "x", 1, EmptyDict)
    \/ lite_obs.data_store /\ GetRequests(1, 1)
    \/ lite_obs.data_store /\ GetTraces(1, 1)
    \/ lite_obs.data_store /\ GetMetrics(1)
    \/ Step(1)

SpecAccepted == InitConfig /\ [][NextAccepted]_vars

\* Thread t reads in this step, right after its own write op returned.
ReadsBack(t, write, read) ==
    /\ ret[t].op = write /\ ~ret[t].raised /\ ret[t].serial = hist.ops
    /\ pc[t] = "idle"
    /\ ret'[t].op = read /\ ret'[t].serial = hist.ops + 1

\* C33: a store built from a configuration that ConfigManager accepted has
\* room for at least one entry in every bounded collection, and a record
\* written by a Record* call comes back from the Get* call made right after.
C33_AcceptedConfigRetains ==
    /\ [](lite_obs.data_store =>
            /\ traces.maxlen >= 1 /\ errors.maxlen >= 1
            /\ request_metrics.maxlen >= 1 /\ resource_metrics.maxlen >= 1
            /\ \A k \in DOMAIN custom_metrics : custom_metrics[k].values.maxlen >= 1)
    /\ [][\A t \in Threads :
            /\ ReadsBack(t, "record_request", "get_requests")
                   => ret'[t].value.entries # <<>>
            /\ ReadsBack(t, "record_trace", "get_traces")
                   => ret'[t].value.entries # <<>>
            /\ ReadsBack(t, "record_custom_metric", "get_metrics")
                   => ret'[t].value.custom["x"].values # <<>>]_vars
====
